---------------------------- MODULE Spec2Model ----------------------------
(***************************************************************************)
(* Model of src/main.py: statistical cryptanalysis of a Vigenere cipher.   *)
(*                                                                         *)
(* Characters are code points (ord), so that position_in_alphabet and      *)
(* letter_in_alphabet are the arithmetic the code performs.  Strings are   *)
(* sequences of code points.  A dict is a sequence of [letter, count]      *)
(* records in insertion order, the order Python iterates it in.            *)
(*                                                                         *)
(* Floating point comparisons are modelled by exact integer comparisons    *)
(* after scaling: relative frequencies by 10000 * n, coincidence indexes   *)
(* by 1000 * n * (n - 1).  A float result could differ from the exact one  *)
(* only when the exact value sits on a tolerance boundary, which needs a   *)
(* column of n >= 125 letters (coincidence) or n >= 1000 (frequencies);    *)
(* every column of this model is shorter.                                  *)
(*                                                                         *)
(* Spec      : one run of main() on an input file.                         *)
(* SpecCalls : single calls of the helper functions on bounded inputs.     *)
(***************************************************************************)
EXTENDS Integers, Sequences, FiniteSets

VARIABLES
    encrypted_text,     \* main: the text read from the input file
    pc,                 \* position in main(), or the state of a helper call
    error,              \* the exception that ended the run ("none": running)
    i,                  \* main: loop variable of the key length search (0: unbound)
    key_length,         \* main: key_length
    sub_texts,          \* main: sub_texts
    language,           \* main: language
    col,                \* main: number of sub-texts the second step has handled
    password_1,         \* main: password_by_shifting_all_by_most_frequent_letter
    password_2,         \* main: password_by_shifting_all_by_second_most_frequent_letter
    possible_passwords, \* main: possible_passwords
    decrypted_dir,      \* the folder "decrypted": "initial" or "recreated"
    files,              \* the files written into "decrypted": [name, content]
    pw_idx,             \* main: number of passwords the third step has handled
    call,               \* SpecCalls: the helper call, [name, args]
    ret                 \* SpecCalls: what the call returned, [raised, value]

vars == <<encrypted_text, pc, error, i, key_length, sub_texts, language, col,
          password_1, password_2, possible_passwords, decrypted_dir, files,
          pw_idx, call, ret>>

mainVars == <<encrypted_text, error, i, key_length, sub_texts, language, col,
              password_1, password_2, possible_passwords, decrypted_dir, files,
              pw_idx>>

-----------------------------------------------------------------------------
(* Program constants *)

\* ord("a")
ord_a == 97

\* ENGLISH_COINCIDENCE_INDEX = 0.066, in thousandths
ENGLISH_COINCIDENCE_INDEX == 66

\* PORTUGUESE_COINCIDENCE_INDEX = 0.074, in thousandths
PORTUGUESE_COINCIDENCE_INDEX == 74

\* ENGLISH_MOST_FREQUENT_LETTERS = ["e", "t"]
ENGLISH_MOST_FREQUENT_LETTERS == <<101, 116>>

\* PORTUGUESE_MOST_FREQUENT_LETTERS = ["a", "e"]
PORTUGUESE_MOST_FREQUENT_LETTERS == <<97, 101>>

\* for i in range(1, 21): the largest key length tried
MaxPeriod == 20

Letters == ord_a .. (ord_a + 25)

Abs(x) == IF x < 0 THEN -x ELSE x

-----------------------------------------------------------------------------
(* Alphabet arithmetic *)

position_in_alphabet(letter) == letter - ord_a + 1

\* The code point handed to chr().
letter_in_alphabet(position) == position + ord_a - 1

\* chr() raises ValueError outside range(0x110000)
chr_defined(n) == n \in 0..1114111

\* the branch for an end letter before the start letter left out
calculate_shift_NoWrap(start_letter, end_letter) ==
    position_in_alphabet(end_letter) - position_in_alphabet(start_letter) + 1

\* the shift counted from 0, without the "+ 1"
calculate_shift_ZeroBased(start_letter, end_letter) ==
    LET position_1 == position_in_alphabet(start_letter)
        position_2 == position_in_alphabet(end_letter)
    IN  IF position_2 >= position_1
        THEN position_2 - position_1
        ELSE 26 - position_1 + position_2

calculate_shift(start_letter, end_letter) ==
    LET position_1 == position_in_alphabet(start_letter)
        position_2 == position_in_alphabet(end_letter)
    IN  IF position_2 >= position_1
        THEN position_2 - position_1 + 1
        ELSE 26 - position_1 + position_2 + 1

-----------------------------------------------------------------------------
(* Frequency tables *)

\* letters_map[letter] += 1 if the letter is a key, letters_map[letter] = 1 if not
AddLetter(letters_map, letter) ==
    IF \E k \in DOMAIN letters_map : letters_map[k].letter = letter
    THEN LET k == CHOOSE k \in DOMAIN letters_map : letters_map[k].letter = letter
         IN  [letters_map EXCEPT ![k].count = @ + 1]
    ELSE Append(letters_map, [letter |-> letter, count |-> 1])

RECURSIVE get_letters_map_from(_, _, _)
get_letters_map_from(encrypted_text_, k, letters_map) ==
    IF k > Len(encrypted_text_) THEN letters_map
    ELSE get_letters_map_from(encrypted_text_, k + 1,
                              AddLetter(letters_map, encrypted_text_[k]))

get_letters_map(encrypted_text_) == get_letters_map_from(encrypted_text_, 1, <<>>)

RECURSIVE SumFrom(_, _)
\* sum(letters_map.values())
SumFrom(letters_map, k) ==
    IF k > Len(letters_map) THEN 0
    ELSE letters_map[k].count + SumFrom(letters_map, k + 1)

total_letters(letters_map) == SumFrom(letters_map, 1)

RECURSIVE PairsFrom(_, _)
\* the numerators letter_frequency * (letter_frequency - 1), summed
PairsFrom(letters_map, k) ==
    IF k > Len(letters_map) THEN 0
    ELSE letters_map[k].count * (letters_map[k].count - 1)
         + PairsFrom(letters_map, k + 1)

\* The index as the exact fraction num / den.  An empty dict never enters the
\* loop and yields 0; a dict of one letter seen once divides 0 by 0.
calculate_coincidence_index(letters_map) ==
    LET total == total_letters(letters_map)
    IN  IF letters_map = <<>>
        THEN [raised |-> "none", num |-> 0, den |-> 1]
        ELSE IF total * (total - 1) = 0
        THEN [raised |-> "ZeroDivisionError", num |-> 0, den |-> 1]
        ELSE [raised |-> "none", num |-> PairsFrom(letters_map, 1),
              den |-> total * (total - 1)]

\* max(letters_map, key=letters_map.get): the first key of the largest count
MostFrequentIndex(letters_map) ==
    CHOOSE k \in DOMAIN letters_map :
        /\ \A m \in DOMAIN letters_map : letters_map[m].count <= letters_map[k].count
        /\ \A m \in 1..(k - 1) : letters_map[m].count < letters_map[k].count

\* sorted(letters_map.items(), key=lambda x: x[1], reverse=True).  The sort is
\* stable: an item lands after every item of a larger count and after the
\* items of the same count that come before it in the dict.
SortedPosition(letters_map, k) ==
    1 + Cardinality({ m \in DOMAIN letters_map :
                        \/ letters_map[m].count > letters_map[k].count
                        \/ /\ letters_map[m].count = letters_map[k].count
                           /\ m < k })

sorted_by_count(letters_map) ==
    [p \in DOMAIN letters_map |->
        letters_map[CHOOSE k \in DOMAIN letters_map :
                        SortedPosition(letters_map, k) = p]]

\* Frequencies are compared exactly: abs(c / n - e) < t  <=>
\* |10000 c - 10000 e n| < 10000 t n.

\* the second most frequent letter left unchecked
is_text_portuguese_FirstOnly(letters_map) ==
    LET total == total_letters(letters_map)
        sorted_letters_map == sorted_by_count(letters_map)
    IN  IF Len(sorted_letters_map) < 2 THEN "IndexError"
        ELSE IF Abs(10000 * sorted_letters_map[1].count - 1463 * total) < 300 * total
        THEN "True" ELSE "None"

is_text_english(letters_map) ==
    LET total == total_letters(letters_map)
        sorted_letters_map == sorted_by_count(letters_map)
    IN  IF Len(sorted_letters_map) < 2 THEN "IndexError"
        ELSE IF /\ Abs(10000 * sorted_letters_map[1].count - 1270 * total) < 100 * total
                /\ Abs(10000 * sorted_letters_map[2].count - 905 * total) < 100 * total
        THEN "True" ELSE "None"

is_text_portuguese(letters_map) ==
    LET total == total_letters(letters_map)
        sorted_letters_map == sorted_by_count(letters_map)
    IN  IF Len(sorted_letters_map) < 2 THEN "IndexError"
        ELSE IF /\ Abs(10000 * sorted_letters_map[1].count - 1463 * total) < 300 * total
                /\ Abs(10000 * sorted_letters_map[2].count - 1257 * total) < 300 * total
        THEN "True" ELSE "None"

\* abs(index - target_index) > 0.1 rejects; target_index in thousandths
coincidence_indexes_match(coincidence_indexes, target_index) ==
    \A k \in DOMAIN coincidence_indexes :
        ~ (Abs(1000 * coincidence_indexes[k].num
               - target_index * coincidence_indexes[k].den)
           > 100 * coincidence_indexes[k].den)

-----------------------------------------------------------------------------
(* Columns *)

\* s[start::step] for 0 <= start, 1 <= step
Slice(s, start, step) ==
    LET n == IF start >= Len(s) THEN 0 ELSE (Len(s) - start + step - 1) \div step
    IN  [j \in 1..n |-> s[start + (j - 1) * step + 1]]

divide_text(encrypted_text_, number_of_parts) ==
    [p \in 1..number_of_parts |-> Slice(encrypted_text_, p - 1, number_of_parts)]

RECURSIVE JoinFrom(_, _, _, _, _)
\* the nested loops of join_text, flattened: k = i * number_of_parts + j
JoinFrom(divided_text, number_of_parts, rows, k, joined_text) ==
    IF k >= rows * number_of_parts THEN joined_text
    ELSE LET i_ == k \div number_of_parts
             j_ == k % number_of_parts
         IN  JoinFrom(divided_text, number_of_parts, rows, k + 1,
                      IF i_ < Len(divided_text[j_ + 1])
                      THEN Append(joined_text, divided_text[j_ + 1][i_ + 1])
                      ELSE joined_text)

\* the rows counted on the last part instead of the first
join_text_LastRows(divided_text, number_of_parts) ==
    JoinFrom(divided_text, number_of_parts,
             Len(divided_text[Len(divided_text)]), 0, <<>>)

join_text(divided_text, number_of_parts) ==
    JoinFrom(divided_text, number_of_parts, Len(divided_text[1]), 0, <<>>)

-----------------------------------------------------------------------------
(* Candidate keys *)

RECURSIVE generate_combinations(_, _, _, _)
generate_combinations(str1, str2, index, current) ==
    IF index = Len(str1) + 1 THEN <<current>>
    ELSE generate_combinations(str1, str2, index + 1, Append(current, str1[index]))
         \o generate_combinations(str1, str2, index + 1, Append(current, str2[index]))

\* both branches take the letter of the first string
string_combinations_PrimaryTwice(str1, str2) ==
    generate_combinations(str1, str1, 1, <<>>)

string_combinations(str1, str2) == generate_combinations(str1, str2, 1, <<>>)

\* the swap one index too early: entries 0 and -1
reorder_passwords_FirstAndLast(passwords) ==
    [passwords EXCEPT ![1] = passwords[Len(passwords)],
                      ![Len(passwords)] = passwords[1]]

\* if len(possible_passwords) > 2: swap entries 1 and -1
reorder_passwords(passwords) ==
    IF Len(passwords) > 2
    THEN [passwords EXCEPT ![2] = passwords[Len(passwords)],
                           ![Len(passwords)] = passwords[2]]
    ELSE passwords

-----------------------------------------------------------------------------
(* Decryption *)

\* The loop over the text of the third step, for one password.
decrypt_text(encrypted_text_, password, key_length_) ==
    IF encrypted_text_ # <<>> /\ key_length_ = 0
    THEN [raised |-> "ZeroDivisionError", value |-> <<>>]
    ELSE LET out == [k \in DOMAIN encrypted_text_ |->
                        letter_in_alphabet(
                            calculate_shift(password[((k - 1) % key_length_) + 1],
                                            encrypted_text_[k]))]
         IN  IF \E k \in DOMAIN out : ~ chr_defined(out[k])
             THEN [raised |-> "ValueError", value |-> <<>>]
             ELSE [raised |-> "none", value |-> out]

-----------------------------------------------------------------------------
(* Bounds and inputs *)

\* longest periodic input text of Spec
MaxLen == 31

\* SpecCalls: longest plaintext and longest key of a decryption
MaxPlainLen == 3
MaxKeyLen == 2

\* SpecCalls: longest text and largest number of parts of a division
MaxDivLen == 4
MaxParts == 5

\* SpecCalls: longest pair of hypothesis strings
MaxCombLen == 3

\* Pattern(q, r, L): L letters, cycling through the first q letters of the
\* alphabet in runs of r equal letters.
Pattern(q, r, L) == [k \in 1..L |-> ord_a + (((k - 1) \div r) % q)]

\* Texts over a..z of every length up to MaxLen, of every number of letters.
PeriodicTexts == { Pattern(q, 1, L) : q \in 1..26, L \in 0..MaxLen }

\* Texts long enough for every column of every candidate key length to hold
\* two letters: one of two runs, one of a single letter, one of period 23.
LongTexts == { Pattern(2, MaxPeriod, 2 * MaxPeriod),
               Pattern(1, 1, 2 * MaxPeriod),
               Pattern(23, 1, 2 * 23) }

Texts == PeriodicTexts \cup LongTexts

-----------------------------------------------------------------------------
(* main() *)

Init ==
    /\ encrypted_text \in Texts
    /\ pc = "search"
    /\ error = "none"
    /\ i = 0
    /\ key_length = 0
    /\ sub_texts = <<>>
    /\ language = "UNKNOWN"
    /\ col = 0
    /\ password_1 = <<>>
    /\ password_2 = <<>>
    /\ possible_passwords = <<>>
    /\ decrypted_dir = "initial"
    /\ files = {}
    /\ pw_idx = 0
    /\ call = [name |-> "none"]
    /\ ret = [raised |-> "none"]

\* What the inner loop of the first step raises on one sub-text, if anything:
\* the coincidence index is computed first, the language checks after it.
SubTextRaises(text) ==
    LET letters_map == get_letters_map(text)
        index == calculate_coincidence_index(letters_map)
    IN  IF index.raised # "none" THEN index.raised
        ELSE IF is_text_english(letters_map) = "IndexError" THEN "IndexError"
        ELSE IF is_text_portuguese(letters_map) = "IndexError" THEN "IndexError"
        ELSE "none"

\* The exception of the first sub-text that raises one.
FirstRaised(texts) ==
    IF \A k \in DOMAIN texts : SubTextRaises(texts[k]) = "none" THEN "none"
    ELSE SubTextRaises(texts[CHOOSE k \in DOMAIN texts :
                                /\ SubTextRaises(texts[k]) # "none"
                                /\ \A m \in 1..(k - 1) : SubTextRaises(texts[m]) = "none"])

coincidence_indexes_of(texts) ==
    [k \in DOMAIN texts |-> calculate_coincidence_index(get_letters_map(texts[k]))]

is_english_results(texts) ==
    [k \in DOMAIN texts |-> is_text_english(get_letters_map(texts[k]))]

is_portuguese_results(texts) ==
    [k \in DOMAIN texts |-> is_text_portuguese(get_letters_map(texts[k]))]

\* all(results): is_text_* returns True or None
all(results) == \A k \in DOMAIN results : results[k] = "True"

\* One iteration of "for i in range(1, 21)".
SearchStep ==
    /\ pc = "search"
    /\ error = "none"
    /\ i < MaxPeriod
    /\ LET n == i + 1
           texts == divide_text(encrypted_text, n)
           raised == FirstRaised(texts)
           indexes == coincidence_indexes_of(texts)
       IN  /\ i' = n
           /\ sub_texts' = texts
           /\ IF raised # "none"
              THEN /\ error' = raised
                   /\ UNCHANGED <<pc, key_length, language>>
              ELSE IF /\ coincidence_indexes_match(indexes, ENGLISH_COINCIDENCE_INDEX)
                      /\ all(is_english_results(texts))
              THEN /\ key_length' = n
                   /\ language' = "ENGLISH"
                   /\ pc' = "recover"
                   /\ UNCHANGED error
              ELSE IF /\ coincidence_indexes_match(indexes, PORTUGUESE_COINCIDENCE_INDEX)
                      /\ all(is_portuguese_results(texts))
              THEN /\ key_length' = n
                   /\ language' = "PORTUGUESE"
                   /\ pc' = "recover"
                   /\ UNCHANGED error
              ELSE /\ pc' = IF n = MaxPeriod THEN "recover" ELSE "search"
                   /\ UNCHANGED <<error, key_length, language>>
    /\ UNCHANGED <<encrypted_text, col, password_1, password_2,
                   possible_passwords, decrypted_dir, files, pw_idx, call, ret>>

language_most_frequent_letters ==
    IF language = "ENGLISH" THEN ENGLISH_MOST_FREQUENT_LETTERS
    ELSE PORTUGUESE_MOST_FREQUENT_LETTERS

\* One iteration of "for i, text in enumerate(sub_texts)".
RecoverStep ==
    /\ pc = "recover"
    /\ error = "none"
    /\ col < Len(sub_texts)
    /\ LET letters_map == get_letters_map(sub_texts[col + 1])
       IN  IF letters_map = <<>>
           THEN \* max() of an empty dict
                /\ error' = "ValueError"
                /\ UNCHANGED <<pc, col, password_1, password_2>>
           ELSE LET text_most_frequent_letter ==
                        letters_map[MostFrequentIndex(letters_map)].letter
                    shift_1 == calculate_shift(language_most_frequent_letters[1],
                                               text_most_frequent_letter)
                    shift_2 == calculate_shift(language_most_frequent_letters[2],
                                               text_most_frequent_letter)
                    key_1_letter == letter_in_alphabet(shift_1)
                    key_2_letter == letter_in_alphabet(shift_2)
                IN  IF ~ chr_defined(key_1_letter) \/ ~ chr_defined(key_2_letter)
                    THEN /\ error' = "ValueError"
                         /\ UNCHANGED <<pc, col, password_1, password_2>>
                    ELSE /\ password_1' = Append(password_1, key_1_letter)
                         /\ password_2' = Append(password_2, key_2_letter)
                         /\ col' = col + 1
                         /\ pc' = IF col + 1 = Len(sub_texts) THEN "combine"
                                  ELSE "recover"
                         /\ UNCHANGED error
    /\ UNCHANGED <<encrypted_text, i, key_length, sub_texts, language,
                   possible_passwords, decrypted_dir, files, pw_idx, call, ret>>

\* string_combinations and the swap that follows it.
CombineStep ==
    /\ pc = "combine"
    /\ error = "none"
    /\ possible_passwords' =
           reorder_passwords(string_combinations(password_1, password_2))
    /\ pc' = "output"
    /\ UNCHANGED <<encrypted_text, error, i, key_length, sub_texts, language, col,
                   password_1, password_2, decrypted_dir, files, pw_idx, call, ret>>

\* rmtree("decrypted") if it exists, then makedirs("decrypted").
OutputStep ==
    /\ pc = "output"
    /\ error = "none"
    /\ decrypted_dir' = "recreated"
    /\ files' = {}
    /\ pc' = "decrypt"
    /\ UNCHANGED <<encrypted_text, error, i, key_length, sub_texts, language, col,
                   password_1, password_2, possible_passwords, pw_idx, call, ret>>

\* One iteration of "for password in possible_passwords".
DecryptStep ==
    /\ pc = "decrypt"
    /\ error = "none"
    /\ pw_idx < Len(possible_passwords)
    /\ LET password == possible_passwords[pw_idx + 1]
           decrypted_text == decrypt_text(encrypted_text, password, key_length)
       IN  IF decrypted_text.raised # "none"
           THEN /\ error' = decrypted_text.raised
                /\ UNCHANGED <<pc, files, pw_idx>>
           ELSE /\ files' = { f \in files : f.name # password }
                              \cup {[name |-> password,
                                     content |-> decrypted_text.value]}
                /\ pw_idx' = pw_idx + 1
                /\ pc' = IF pw_idx + 1 = Len(possible_passwords) THEN "done"
                         ELSE "decrypt"
                /\ UNCHANGED error
    /\ UNCHANGED <<encrypted_text, i, key_length, sub_texts, language, col,
                   password_1, password_2, possible_passwords, decrypted_dir,
                   call, ret>>

Next ==
    \/ SearchStep
    \/ RecoverStep
    \/ CombineStep
    \/ OutputStep
    \/ DecryptStep

Spec == Init /\ [][Next]_vars

-----------------------------------------------------------------------------
(* Single calls of the helper functions *)

SeqsUpTo(S, n) == UNION { [1..m -> S] : m \in 0..n }

\* Characters a file may hold: ASCII, the letters among them.
CallChars == 0..127

\* The letters, and a newline, a space and an uppercase letter.
ShiftChars == Letters \cup {10, 32, 65}

\* Plaintexts and keys: every single letter, and the strings over a, n, z.
Plaintexts == { <<c>> : c \in Letters } \cup SeqsUpTo({97, 110, 122}, MaxPlainLen)
Keys == { <<c>> : c \in Letters } \cup (SeqsUpTo({97, 110, 122}, MaxKeyLen) \ {<<>>})

\* The Vigenere encryption the decryption is the inverse of: character k becomes
\* the letter at 0-based index (plaintext[k] + key[k mod |key|]) mod 26.
Encrypt(plaintext, key) ==
    [k \in DOMAIN plaintext |->
        ord_a + (((plaintext[k] - ord_a) + (key[((k - 1) % Len(key)) + 1] - ord_a)) % 26)]

DivTexts == SeqsUpTo({97, 98, 99}, MaxDivLen)

\* Pairs of hypothesis strings of equal length over two letters.
CombPairs == UNION { [1..m -> {97, 98}] \X [1..m -> {97, 98}] : m \in 0..MaxCombLen }

InitCalls ==
    /\ encrypted_text = <<>>
    /\ pc = "call"
    /\ error = "none"
    /\ i = 0
    /\ key_length = 0
    /\ sub_texts = <<>>
    /\ language = "UNKNOWN"
    /\ col = 0
    /\ password_1 = <<>>
    /\ password_2 = <<>>
    /\ possible_passwords = <<>>
    /\ decrypted_dir = "initial"
    /\ files = {}
    /\ pw_idx = 0
    /\ ret = [raised |-> "none"]
    /\ \/ call \in { [name |-> "position_in_alphabet", args |-> <<c>>] :
                        c \in CallChars }
       \/ call \in { [name |-> "calculate_shift", args |-> <<x, y>>] :
                        x \in ShiftChars, y \in ShiftChars }
       \/ call \in { [name |-> "decrypt", args |-> <<Encrypt(p, k), k>>,
                      plaintext |-> p] :
                        p \in Plaintexts, k \in Keys }
       \/ call \in { [name |-> "divide_text", args |-> <<t, n>>] :
                        t \in DivTexts, n \in 1..MaxParts }
       \/ call \in { [name |-> "join_text", args |-> <<divide_text(t, n), n>>,
                      text |-> t] :
                        t \in DivTexts, n \in 1..MaxParts }
       \/ call \in { [name |-> "string_combinations", args |-> s] :
                        s \in CombPairs }
       \/ call \in { [name |-> "reorder_passwords",
                      args |-> <<string_combinations(s[1], s[2])>>,
                      str1 |-> s[1], str2 |-> s[2]] :
                        s \in CombPairs }

Call_position_in_alphabet ==
    /\ pc = "call"
    /\ call.name = "position_in_alphabet"
    /\ ret' = [raised |-> "none", value |-> position_in_alphabet(call.args[1])]
    /\ pc' = "returned"
    /\ UNCHANGED <<mainVars, call>>

Call_calculate_shift ==
    /\ pc = "call"
    /\ call.name = "calculate_shift"
    /\ ret' = [raised |-> "none",
               value |-> calculate_shift(call.args[1], call.args[2])]
    /\ pc' = "returned"
    /\ UNCHANGED <<mainVars, call>>

\* The loop of the third step over a whole text, the key length that of the key.
Call_decrypt ==
    /\ pc = "call"
    /\ call.name = "decrypt"
    /\ ret' = decrypt_text(call.args[1], call.args[2], Len(call.args[2]))
    /\ pc' = "returned"
    /\ UNCHANGED <<mainVars, call>>

Call_divide_text ==
    /\ pc = "call"
    /\ call.name = "divide_text"
    /\ ret' = [raised |-> "none",
               value |-> divide_text(call.args[1], call.args[2])]
    /\ pc' = "returned"
    /\ UNCHANGED <<mainVars, call>>

Call_join_text ==
    /\ pc = "call"
    /\ call.name = "join_text"
    /\ ret' = [raised |-> "none",
               value |-> join_text(call.args[1], call.args[2])]
    /\ pc' = "returned"
    /\ UNCHANGED <<mainVars, call>>

Call_string_combinations ==
    /\ pc = "call"
    /\ call.name = "string_combinations"
    /\ ret' = [raised |-> "none",
               value |-> string_combinations(call.args[1], call.args[2])]
    /\ pc' = "returned"
    /\ UNCHANGED <<mainVars, call>>

\* The swap of the second step on a list string_combinations produced.
Call_reorder_passwords ==
    /\ pc = "call"
    /\ call.name = "reorder_passwords"
    /\ ret' = [raised |-> "none", value |-> reorder_passwords(call.args[1])]
    /\ pc' = "returned"
    /\ UNCHANGED <<mainVars, call>>

NextCalls ==
    \/ Call_position_in_alphabet
    \/ Call_calculate_shift
    \/ Call_decrypt
    \/ Call_divide_text
    \/ Call_join_text
    \/ Call_string_combinations
    \/ Call_reorder_passwords

SpecCalls == InitCalls /\ [][NextCalls]_vars

Returned(name) == pc = "returned" /\ call.name = name

-----------------------------------------------------------------------------
(* What the properties speak of, stated without the operators of the model *)

IsLetterText(text) == \A k \in DOMAIN text : text[k] \in Letters

\* The characters of text at the 0-based indices k, k + P, k + 2P, ...
ColumnOf(text, P, k) ==
    LET n == Cardinality({ m \in 0..(Len(text) - 1) : m % P = k })
    IN  [j \in 1..n |-> text[k + (j - 1) * P + 1]]

Occurrences(text, x) == Cardinality({ j \in DOMAIN text : text[j] = x })

LettersOf(text) == { text[j] : j \in DOMAIN text }

RECURSIVE CoincidencePairs(_, _)
\* the sum of f * (f - 1) over the letters of S
CoincidencePairs(text, S) ==
    IF S = {} THEN 0
    ELSE LET x == CHOOSE x \in S : TRUE
         IN  Occurrences(text, x) * (Occurrences(text, x) - 1)
             + CoincidencePairs(text, S \ {x})

Rank1Count(text) ==
    CHOOSE c \in 1..Len(text) :
        /\ \E x \in LettersOf(text) : Occurrences(text, x) = c
        /\ \A x \in LettersOf(text) : Occurrences(text, x) <= c

\* the largest count once one letter of the largest count is set aside
Rank2Count(text) ==
    LET top == CHOOSE x \in LettersOf(text) : Occurrences(text, x) = Rank1Count(text)
        rest == LettersOf(text) \ {top}
    IN  CHOOSE c \in 1..Len(text) :
            /\ \E x \in rest : Occurrences(text, x) = c
            /\ \A x \in rest : Occurrences(text, x) <= c

\* Expected coincidence index (thousandths) and tolerance; expected rank-1 and
\* rank-2 relative frequencies (ten-thousandths) and tolerance.
Profile(g) ==
    IF g = "ENGLISH"
    THEN [index |-> 66, index_tol |-> 100,
          rank1 |-> 1270, rank2 |-> 905, rank_tol |-> 100]
    ELSE [index |-> 74, index_tol |-> 100,
          rank1 |-> 1463, rank2 |-> 1257, rank_tol |-> 300]

Languages == {"ENGLISH", "PORTUGUESE"}

\* A column passes for language g: its coincidence index is within tolerance of
\* g's, and so are the relative frequencies of its two most frequent letters.
ColumnPasses(text, g) ==
    LET n == Len(text)
    IN  /\ Cardinality(LettersOf(text)) >= 2
        /\ Abs(1000 * CoincidencePairs(text, LettersOf(text))
               - Profile(g).index * n * (n - 1))
           <= Profile(g).index_tol * n * (n - 1)
        /\ Abs(10000 * Rank1Count(text) - Profile(g).rank1 * n)
           < Profile(g).rank_tol * n
        /\ Abs(10000 * Rank2Count(text) - Profile(g).rank2 * n)
           < Profile(g).rank_tol * n

PeriodPasses(text, P, g) == \A k \in 0..(P - 1) : ColumnPasses(ColumnOf(text, P, k), g)

AfterSearch == pc \in {"recover", "combine", "output", "decrypt", "done"}

\* x advanced n positions forward, wrapping after z
Advance(x, n) == ord_a + ((x - ord_a + n) % 26)

CountIn(list, x) == Cardinality({ k \in DOMAIN list : list[k] = x })

-----------------------------------------------------------------------------
(* Properties *)

\* C1: when no key length in 1..20 is accepted, the run halts before key
\* recovery: no shift is computed, no candidate key is generated, the output
\* folder is not touched and no decryption is attempted.
C1_HaltsBeforeKeyRecovery ==
    (AfterSearch /\ key_length = 0) =>
        /\ col = 0
        /\ password_1 = <<>>
        /\ password_2 = <<>>
        /\ possible_passwords = <<>>
        /\ decrypted_dir = "initial"
        /\ files = {}
        /\ pw_idx = 0

\* C2: an accepted key length P with language G is one of 1..20, G passes on
\* every one of the P columns, no language passes on all the columns of a
\* smaller key length, and no key length larger than P has been evaluated.
C2_SmallestPassingPeriod ==
    (key_length # 0) =>
        /\ AfterSearch
        /\ key_length \in 1..MaxPeriod
        /\ language \in Languages
        /\ PeriodPasses(encrypted_text, key_length, language)
        /\ \A P \in 1..(key_length - 1) :
               \A g \in Languages : ~ PeriodPasses(encrypted_text, P, g)
        /\ i = key_length
        /\ sub_texts = [k \in 1..key_length |->
                            ColumnOf(encrypted_text, key_length, k - 1)]

\* A key length of 2 or more was accepted: the smaller ones were rejected.
C2_Witness == pc = "recover" /\ col = 0 /\ key_length >= 2

\* C3: decrypting the Vigenere encryption of a plaintext over a..z with the
\* same non-empty key returns the plaintext.
C3_RoundTrip ==
    Returned("decrypt") =>
        /\ ret.raised = "none"
        /\ ret.value = call.plaintext

\* A plaintext longer than its key, of which one letter wraps past z when it is
\* encrypted and another does not.
C3_Witness ==
    /\ Returned("decrypt")
    /\ Len(call.args[2]) >= 2
    /\ Len(call.plaintext) > Len(call.args[2])
    /\ \E k \in DOMAIN call.plaintext : call.args[1][k] < call.plaintext[k]
    /\ \E k \in DOMAIN call.plaintext : call.args[1][k] > call.plaintext[k]

\* C4: for letters x, y the shift from x to y is in 1..26, advancing x by
\* shift - 1 positions (wrapping after z) yields y, and letter_in_alphabet of
\* the shift is a letter.
C4_ShiftSymmetry ==
    (Returned("calculate_shift") /\ call.args[1] \in Letters /\ call.args[2] \in Letters) =>
        /\ ret.raised = "none"
        /\ ret.value \in 1..26
        /\ Advance(call.args[1], ret.value - 1) = call.args[2]
        /\ letter_in_alphabet(ret.value) \in Letters

\* A shift from a letter to one that comes before it in the alphabet.
C4_Witness ==
    /\ Returned("calculate_shift")
    /\ call.args[1] \in Letters
    /\ call.args[2] \in Letters
    /\ call.args[2] < call.args[1]

\* C5: divide_text returns exactly P columns whose lengths sum to the length of
\* the text, column k holding the characters at indices k, k + P, k + 2P, ...;
\* join_text of those columns with the same P returns the text.
C5_ColumnPartition ==
    /\ Returned("divide_text") =>
           LET text == call.args[1]
               P == call.args[2]
           IN  /\ Len(ret.value) = P
               /\ \A k \in 0..(P - 1) : ret.value[k + 1] = ColumnOf(text, P, k)
               /\ \A m \in 0..(Len(text) - 1) :
                      ret.value[(m % P) + 1][(m \div P) + 1] = text[m + 1]
               /\ Cardinality({ <<k, j>> \in (1..P) \X (1..Len(text)) :
                                   j <= Len(ret.value[k]) }) = Len(text)
    /\ Returned("join_text") => ret.value = call.text

\* Columns of a text shorter than the number of parts, joined again.
C5_Witness ==
    /\ Returned("join_text")
    /\ Len(call.text) >= 1
    /\ call.args[2] > Len(call.text)
    /\ \E k \in DOMAIN call.args[1] : call.args[1][k] = <<>>

\* C6: two hypothesis strings of length P yield exactly 2^P distinct candidate
\* keys when they differ in every column and fewer than 2^P distinct candidate
\* keys when they agree in some column; every key has length P and takes at
\* each column the letter of one of the two strings.
C6_CombinatorialSize ==
    Returned("string_combinations") =>
        LET str1 == call.args[1]
            str2 == call.args[2]
            P == Len(str1)
            keys == { ret.value[k] : k \in DOMAIN ret.value }
        IN  /\ (\A c \in 1..P : str1[c] # str2[c]) => Cardinality(keys) = 2 ^ P
            /\ (\E c \in 1..P : str1[c] = str2[c]) => Cardinality(keys) < 2 ^ P
            /\ \A key \in keys :
                   /\ Len(key) = P
                   /\ \A c \in 1..P : key[c] \in {str1[c], str2[c]}

\* Strings of two or more columns that agree in one column and differ in another.
C6_Witness ==
    /\ Returned("string_combinations")
    /\ Len(call.args[1]) >= 2
    /\ \E c \in DOMAIN call.args[1] : call.args[1][c] = call.args[2][c]
    /\ \E c \in DOMAIN call.args[1] : call.args[1][c] # call.args[2][c]

\* C7: while the key length is searched, a column of fewer than 2 characters
\* never ends the run: the search goes on.
C7_DegenerateSegmentSkipped ==
    (pc = "search" /\ \E k \in DOMAIN sub_texts : Len(sub_texts[k]) < 2) =>
        error = "none"

\* C8: position_in_alphabet and calculate_shift fail with InvalidInput for a
\* character outside a..z, and position_in_alphabet returns a position in 1..26
\* for a character inside.
C8_InvalidInputRaised ==
    /\ Returned("position_in_alphabet") =>
           IF call.args[1] \in Letters
           THEN ret.raised = "none" /\ ret.value \in 1..26
           ELSE ret.raised = "InvalidInput"
    /\ Returned("calculate_shift") =>
           IF call.args[1] \in Letters /\ call.args[2] \in Letters
           THEN ret.raised = "none"
           ELSE ret.raised = "InvalidInput"

\* C9: for P >= 1 the generated list starts with the all-primary key and ends
\* with the all-secondary key; the reordered list has the all-primary key at
\* index 0 and the all-secondary key at index 1, and differs from the generated
\* one only by the exchange of the entries at index 1 and at the last index.
C9_CandidateOrder ==
    /\ (Returned("string_combinations") /\ Len(call.args[1]) >= 1) =>
           /\ ret.value[1] = call.args[1]
           /\ ret.value[Len(ret.value)] = call.args[2]
    /\ (Returned("reorder_passwords") /\ Len(call.str1) >= 1) =>
           LET before == call.args[1]
               after == ret.value
               last == Len(before)
           IN  /\ after[1] = call.str1
               /\ after[2] = call.str2
               /\ Len(after) = last
               /\ after[2] = before[last]
               /\ after[last] = before[2]
               /\ \A k \in 1..last : k \notin {2, last} => after[k] = before[k]
               /\ \A k \in 1..last : CountIn(after, before[k]) = CountIn(before, before[k])

\* A list of four or more keys reordered, the two exchanged entries different.
C9_Witness ==
    /\ Returned("reorder_passwords")
    /\ Len(call.str1) >= 2
    /\ ret.value # call.args[1]

\* C10: on a text over a..z long enough for every column of every candidate key
\* length to hold 2 characters, nothing ends the run while the key length is
\* searched.
C10_SearchNeverAborts ==
    (/\ pc = "search"
     /\ IsLetterText(encrypted_text)
     /\ Len(encrypted_text) >= 2 * MaxPeriod) =>
        error = "none"

=============================================================================
